---- MODULE Spec2Model ----
(***************************************************************************)
(* Dependabot auto-merge decision helper (scripts/auto_merge.py).          *)
(*                                                                         *)
(* One proposal (pull request) lives on the hosting platform with its      *)
(* native auto-merge switch and its comment store.  The script is run      *)
(* against it repeatedly, one run at a time.  A run is cut into steps at   *)
(* its external calls; every external call draws its outcome from the      *)
(* outcomes the call can have (success, non-success answer, raised error). *)
(*                                                                         *)
(* Python values are encoded as follows.                                   *)
(*   str            a sequence of one-character strings ("" is << >>)      *)
(*   Optional[x]    << >> for None, << x >> for a value                    *)
(*   score result   [kind, val]: kind "int" (val is the number), "str"     *)
(*                  (the string the code returns), "none" (Python None)    *)
(*                  or "raise" (an exception leaves the function)          *)
(***************************************************************************)
EXTENDS Integers, Sequences, FiniteSets, TLC

VARIABLES
    \* hosting platform, survives across runs
    armed,          \* native auto-merge is armed on the proposal
    comments,       \* the proposal's comments, oldest first
    \* the proposal and the configuration of the job that runs the script
    title_type,     \* what get_upgrade_type yields for the proposal's title
    author_login,   \* login of the proposal's author
    config,         \* [cli, dispatch, env_primary, env_fallback, local]
    \* one run
    pc,             \* position of the current run
    nruns,          \* runs started so far
    compat_score,   \* result of get_compat_score in this run
    threshold,      \* result of load_threshold in this run
    has_skip,       \* the skip label was found by this run
    decision,       \* "none" until decided; Skipped/Allow/ManualReviewRequired
    merge_allowed,  \* MERGE_ALLOWED written by this run: "none"/"true"/"false"
    outcome_file,   \* decision_outcome.txt written by this run
    exit_code,      \* -1 while running
    ops,            \* external mutations attempted by this run, in order
    was_armed,      \* armed when this run started
    faults,         \* external calls that failed so far
    prev,           \* summary of the previous run
    \* inputs and results of the pure functions checked on their own
    t_args, t_result,
    s_body, s_remote, s_result,
    c_title, c_result

vars == <<armed, comments, title_type, author_login, config, pc, nruns,
          compat_score, threshold, has_skip, decision, merge_allowed,
          outcome_file, exit_code, ops, was_armed, faults, prev,
          t_args, t_result, s_body, s_remote, s_result, c_title, c_result>>

hostVars == <<armed, comments>>
prVars   == <<title_type, author_login, config>>
runVars  == <<pc, nruns, compat_score, threshold, has_skip, decision,
              merge_allowed, outcome_file, exit_code, ops, was_armed, faults,
              prev>>
pureVars == <<t_args, t_result, s_body, s_remote, s_result, c_title,
              c_result>>

----------------------------------------------------------------------------
(* Bounds *)

MaxRuns == 2
MaxFaults == 1
MaxBodyLen == 2

----------------------------------------------------------------------------
(* Python strings and int() / str() *)

None == << >>
Some(x) == << x >>
Get(o) == o[1]

Digits == <<"0", "1", "2", "3", "4", "5", "6", "7", "8", "9">>

IsDigit(c) == \E i \in 1..10 : Digits[i] = c

DigitVal(c) == (CHOOSE i \in 1..10 : Digits[i] = c) - 1

RECURSIVE DigitsVal(_)
DigitsVal(s) ==
    IF s = << >> THEN 0
    ELSE 10 * DigitsVal(SubSeq(s, 1, Len(s) - 1)) + DigitVal(s[Len(s)])

AllDigits(s) == s # << >> /\ \A i \in 1..Len(s) : IsDigit(s[i])

\* int(s) succeeds: an optional sign followed by one or more digits
IntParses(s) ==
    \/ AllDigits(s)
    \/ /\ s # << >>
       /\ s[1] \in {"-", "+"}
       /\ AllDigits(Tail(s))

\* int(s) where it succeeds
IntOf(s) ==
    IF s[1] = "-" THEN 0 - DigitsVal(Tail(s))
    ELSE IF s[1] = "+" THEN DigitsVal(Tail(s))
    ELSE DigitsVal(s)

RECURSIVE NatStr(_)
NatStr(n) ==
    IF n < 10 THEN << Digits[n + 1] >>
    ELSE NatStr(n \div 10) \o << Digits[(n % 10) + 1] >>

\* str(n)
Str(n) == IF n < 0 THEN << "-" >> \o NatStr(0 - n) ELSE NatStr(n)

\* Python truthiness of an Optional[str]: None and "" are falsy
Truthy(o) == o # None /\ Get(o) # << >>

\* a or b on Optional[str]
Or(a, b) == IF Truthy(a) THEN a ELSE b

----------------------------------------------------------------------------
(* Threshold resolution *)

DEFAULT_THRESHOLD == 80

\* prepare_env: the CLI override is written into the primary variable
prepare_env(cfg) ==
    IF cfg.cli # None
    THEN [cfg EXCEPT !.env_primary = Some(Str(Get(cfg.cli)))]
    ELSE cfg

\* load_threshold, reading the environment prepare_env left
load_threshold(cfg) ==
    LET dispatch == IF Truthy(cfg.dispatch) THEN cfg.dispatch ELSE None
        threshold_str ==
            Get(Or(dispatch,
                   Or(cfg.env_primary,
                      Or(cfg.env_fallback, Some(Str(DEFAULT_THRESHOLD))))))
    IN  IF IntParses(threshold_str)
        THEN IntOf(threshold_str)
        ELSE DEFAULT_THRESHOLD

----------------------------------------------------------------------------
(* Confidence extraction *)

\* A description is a sequence of fragments: plain prose, a sentence
\* "Compatibility score: N%", or the markdown image link labelled
\* "Dependabot compatibility score" with its URL.
Prose == [t |-> "text", n |-> 0, url |-> ""]
ScoreText(n) == [t |-> "score_text", n |-> n, url |-> ""]
Badge(u) == [t |-> "badge", n |-> 0, url |-> u]

GOOD_URL == "https://dependabot-badges.githubapp.com/badges/compatibility_score"
BARE_URL == "dependabot-badges.githubapp.com/badges/compatibility_score"

\* requests accepts the URL (otherwise it raises MissingSchema, a ValueError)
HasScheme(u) == u = GOOD_URL

\* What fetching a well-formed badge URL gives: a resource whose text holds
\* the title "compatibility: N%" (title is the digits), a resource without
\* that title, a malformed resource, or a connection failure.
SvgWith(n) == [status |-> "ok", title |-> Some(Str(n))]
SvgPlain == [status |-> "ok", title |-> None]
SvgMalformed == [status |-> "malformed", title |-> None]
FetchFails == [status |-> "error", title |-> None]

IntResult(n) == [kind |-> "int", val |-> n]
UNKOWN == [kind |-> "str", val |-> -1]
ABSENT == [kind |-> "none", val |-> -1]
RAISED == [kind |-> "raise", val |-> -1]

\* svg_url_patterns[0].search(body): index of the first badge link, 0 if none
svg_url_match(body) ==
    IF \E i \in 1..Len(body) : body[i].t = "badge"
    THEN CHOOSE i \in 1..Len(body) :
            /\ body[i].t = "badge"
            /\ \A j \in 1..(i - 1) : body[j].t # "badge"
    ELSE 0

get_compat_score(body, remote) ==
    LET m == svg_url_match(body)
    IN  IF m = 0 THEN UNKOWN
        ELSE IF ~HasScheme(body[m].url) THEN UNKOWN  \* except ValueError: continue
        ELSE IF remote.status = "error" THEN RAISED  \* not a ValueError
        ELSE IF remote.title # None THEN IntResult(IntOf(Get(remote.title)))
        ELSE UNKOWN

----------------------------------------------------------------------------
(* Version classification *)

\* A title is a sequence of words, the text between runs of whitespace;
\* a word is a string.

UpperChars == <<"B", "U", "M", "P", "F", "R", "O", "T">>
LowerChars == <<"b", "u", "m", "p", "f", "r", "o", "t">>

\* re.IGNORECASE on the letters of the keywords
LowerChar(c) ==
    IF \E i \in 1..Len(UpperChars) : UpperChars[i] = c
    THEN LowerChars[CHOOSE i \in 1..Len(UpperChars) : UpperChars[i] = c]
    ELSE c

LowerWord(w) == [i \in 1..Len(w) |-> LowerChar(w[i])]

KW_BUMP == <<"b", "u", "m", "p">>
KW_FROM == <<"f", "r", "o", "m">>
KW_TO == <<"t", "o">>

\* the keyword bounded by whitespace on both sides
IsKeyword(w, kw) == LowerWord(w) = kw

\* "bump" followed by whitespace: the search may start inside a word
EndsWithKeyword(w, kw) ==
    /\ Len(w) >= Len(kw)
    /\ LowerWord(SubSeq(w, Len(w) - Len(kw) + 1, Len(w))) = kw

\* [0-9]+ at position i: the length of the run of digits starting there
RECURSIVE DigitRun(_, _)
DigitRun(w, i) ==
    IF i <= Len(w) /\ IsDigit(w[i]) THEN 1 + DigitRun(w, i + 1) ELSE 0

\* [0-9]+\.[0-9]+\.[0-9]+ at the start of w: the three runs of digits and
\* the length matched, 0 when w does not start with it
VersionPrefix(w) ==
    LET n1 == DigitRun(w, 1)
        d1 == n1 + 1
        n2 == DigitRun(w, d1 + 1)
        d2 == d1 + n2 + 1
        n3 == DigitRun(w, d2 + 1)
        ok == /\ n1 > 0
              /\ d1 <= Len(w) /\ w[d1] = "."
              /\ n2 > 0
              /\ d2 <= Len(w) /\ w[d2] = "."
              /\ n3 > 0
    IN  IF ok
        THEN [len |-> d2 + n3,
              parts |-> << SubSeq(w, 1, n1), SubSeq(w, d1 + 1, d1 + n2),
                           SubSeq(w, d2 + 1, d2 + n3) >>]
        ELSE [len |-> 0, parts |-> << >>]

\* parse_version: three integers, then nothing or a suffix that starts
\* with "-" or "+"
parse_version(v) ==
    LET p == VersionPrefix(v)
    IN  IF /\ p.len > 0
           /\ (p.len = Len(v) \/ v[p.len + 1] \in {"-", "+"})
        THEN Some(<< IntOf(p.parts[1]), IntOf(p.parts[2]), IntOf(p.parts[3]) >>)
        ELSE None

\* Where the pattern of get_upgrade_type matches with "bump" ending word b
\* and "from" as word f: a dependency between them, after "from" a word
\* that is [0-9]+\.[0-9]+\.[0-9]+ and nothing more (whitespace must follow
\* the group), the word "to", and a word that starts with
\* [0-9]+\.[0-9]+\.[0-9]+ (nothing is required after the second group).
BumpMatchAt(title, b, f) ==
    /\ EndsWithKeyword(title[b], KW_BUMP)
    /\ f >= b + 2
    /\ f + 3 <= Len(title)
    /\ IsKeyword(title[f], KW_FROM)
    /\ VersionPrefix(title[f + 1]).len = Len(title[f + 1])
    /\ IsKeyword(title[f + 2], KW_TO)
    /\ VersionPrefix(title[f + 3]).len > 0

\* re.search: the leftmost "bump" that has a match, and for it the
\* rightmost "from" (".+" is greedy); the two groups, or None
bump_search(title) ==
    LET pos == 1..Len(title)
        hits == {b \in pos : \E f \in pos : BumpMatchAt(title, b, f)}
    IN  IF hits = {} THEN None
        ELSE LET b == CHOOSE x \in hits : \A y \in hits : x <= y
                 fs == {f \in pos : BumpMatchAt(title, b, f)}
                 f == CHOOSE x \in fs : \A y \in fs : x >= y
                 to == title[f + 3]
             IN  Some(<< title[f + 1], SubSeq(to, 1, VersionPrefix(to).len) >>)

get_upgrade_type(title) ==
    LET bump == bump_search(title)
    IN  IF bump = None THEN "not-semver"
        ELSE LET from_v == parse_version(Get(bump)[1])
                 to_v == parse_version(Get(bump)[2])
             IN  IF from_v = None \/ to_v = None THEN "unknown"
                 ELSE IF Get(to_v)[1] # Get(from_v)[1] THEN "Major"
                 ELSE IF Get(to_v)[2] # Get(from_v)[2] THEN "Minor"
                 ELSE IF Get(to_v)[3] # Get(from_v)[3] THEN "Patch"
                 ELSE "unknown"

\* titles
Dot == << "." >>

VersionText(a, b, c) == Str(a) \o Dot \o Str(b) \o Dot \o Str(c)

Suffixes == {<< >>, <<"-", "r", "c">>, <<"+", "7">>}

VersionWords ==
    {VersionText(a, b, c) \o suffix :
        a \in {1, 2}, b \in {2, 17}, c \in {3, 11}, suffix \in Suffixes}
    \cup {Str(1) \o Dot \o Str(2)}

BumpWords == {<<"B", "u", "m", "p">>, <<"b", "u", "m", "p">>}

WORD_FROM == <<"f", "r", "o", "m">>
WORD_TO == <<"t", "o">>
WORD_DEP == <<"l", "o", "d", "a", "s", "h">>
WORD_UPDATE == <<"U", "p", "d", "a", "t", "e">>
WORD_README == <<"r", "e", "a", "d", "m", "e">>

BumpTitles ==
    {<< bump, WORD_DEP, WORD_FROM, a, WORD_TO, b >> :
        bump \in BumpWords, a \in VersionWords, b \in VersionWords}

OtherTitles ==
    {<< >>, << WORD_UPDATE, WORD_README >>}
    \cup {<< bump, WORD_DEP, WORD_TO, b >> :
            bump \in BumpWords, b \in VersionWords}
    \cup {<< WORD_UPDATE, WORD_DEP, WORD_FROM, a, WORD_TO, b >> :
            a \in VersionWords, b \in {VersionText(2, 2, 3)}}

Titles == BumpTitles \cup OtherTitles

----------------------------------------------------------------------------
(* Classification and decision *)

UpgradeTypes == {"Major", "Minor", "Patch", "unknown", "not-semver"}

DEPENDABOT == "dependabot[bot]"
Logins == {DEPENDABOT, "Dependabot[bot]", "octocat"}

\* str.lower on the logins of the model
Lower(login) == IF login = "Dependabot[bot]" THEN DEPENDABOT ELSE login

is_dependabot(login) == Lower(login) = DEPENDABOT

\* isinstance(compat_score, int)
IsInt(score) == score.kind = "int"

\* compute_decision with an exclusive threshold
compute_decision_exclusive(upgrade_type, score, thr) ==
    \/ upgrade_type = "Patch"
    \/ /\ upgrade_type = "Minor"
       /\ IsInt(score)
       /\ score.val > thr

compute_decision(upgrade_type, score, thr) ==
    \/ upgrade_type = "Patch"
    \/ /\ upgrade_type = "Minor"
       /\ IsInt(score)
       /\ score.val >= thr

\* str(compat_score)
ScoreStr(score) ==
    IF score.kind = "int" THEN Str(score.val)
    ELSE IF score.kind = "str" THEN <<"u", "n", "k", "o", "w", "n">>
    ELSE <<"N", "o", "n", "e">>

\* The three reason lines.  The percent sign of the second line is guarded
\* by "compat_score is isinstance(compat_score, int)", which compares the
\* score with a bool and is false for every score, so the suffix is "".
build_reasons(upgrade_type, score, thr) ==
    << upgrade_type, ScoreStr(score) \o << " " >>, Str(thr) >>

----------------------------------------------------------------------------
(* Comments *)

MANUAL_MARKER == "<!-- dependabot-manual-review -->"
SUCCESS_MARKER == "<!-- dependabot-auto-merge-success -->"
MERGE_METHOD == "squash"

\* A comment body: the marker it starts with ("" if it has none), its
\* heading, the reason lines, the rationale and the merge method it shows.
Body(marker, heading, reasons, rationale, method) ==
    [marker |-> marker, heading |-> heading, reasons |-> reasons,
     rationale |-> rationale, method |-> method]

NoRationale == << "", "", "" >>

\* the rationale of the success comment
Rationale(upgrade_type, score, thr) ==
    IF upgrade_type = "Patch" THEN << "patch upgrade", "", "" >>
    ELSE IF upgrade_type = "Minor" /\ score.kind # "none"
         THEN << "minor upgrade", ScoreStr(score), Str(thr) >>
    ELSE << "meets configured criteria", "", "" >>

SkipBody(reasons) ==
    Body("", "Skipping auto-merge", reasons, NoRationale, "")

ManualBody(reasons) ==
    Body(MANUAL_MARKER, "Manual review required", reasons, NoRationale, "")

SuccessBody(upgrade_type, score, thr, reasons) ==
    Body(SUCCESS_MARKER, "Auto-merge enabled", reasons,
         Rationale(upgrade_type, score, thr), MERGE_METHOD)

LocalNoteBody ==
    Body("", "Local run simulation", << >>, NoRationale, MERGE_METHOD)

\* the warning and error comments; their text is the heading and a traceback
WarningBody(heading) == Body("", heading, << >>, NoRationale, "")

\* marker in (c.body or "")
HasMarker(c, marker) == c.marker = marker

\* find_existing requiring the body to be the marker and nothing else
find_existing_whole_body(existing, marker) ==
    IF \E i \in 1..Len(existing) :
          existing[i].marker = marker /\ existing[i].heading = ""
    THEN CHOOSE i \in 1..Len(existing) :
            existing[i].marker = marker /\ existing[i].heading = ""
    ELSE 0

\* next((c for c in existing if marker in c.body), None), as an index
find_existing(existing, marker) ==
    IF \E i \in 1..Len(existing) : HasMarker(existing[i], marker)
    THEN CHOOSE i \in 1..Len(existing) :
            /\ HasMarker(existing[i], marker)
            /\ \A j \in 1..(i - 1) : ~HasMarker(existing[j], marker)
    ELSE 0

\* The marked-comment update both post_manual_review and
\* post_success_comment perform on the comments they listed: edit the
\* marked comment when its body differs, leave it when equal, create one
\* when none is marked.  c is the outcome of the call made, if one is made.
upsert(existing, marker, body, c) ==
    LET i == find_existing(existing, marker)
    IN  IF i # 0
        THEN IF existing[i] # body
             THEN [op |-> "edit", raised |-> c = "raise",
                   store |-> IF c = "ok" THEN [existing EXCEPT ![i] = body]
                             ELSE existing]
             ELSE [op |-> "", raised |-> FALSE, store |-> existing]
        ELSE [op |-> "create", raised |-> c = "raise",
              store |-> IF c = "ok" THEN Append(existing, body) ELSE existing]

----------------------------------------------------------------------------
(* Inputs of a run *)

Scores == {0, 79, 80}

Fragments == {Prose, ScoreText(92), Badge(GOOD_URL), Badge(BARE_URL)}

Bodies == UNION {[1..n -> Fragments] : n \in 0..MaxBodyLen}

Remotes == {SvgWith(n) : n \in Scores} \cup {SvgPlain, SvgMalformed, FetchFails}

\* The arguments and environment of the job: --compat-threshold, the
\* workflow-dispatch input, DEPENDABOT_COMPAT_THRESHOLD,
\* DEFAULT_COMPAT_THRESHOLD and --enable-automerge.
Cfg(cli, dispatch, env_primary, env_fallback, local) ==
    [cli |-> cli, dispatch |-> dispatch, env_primary |-> env_primary,
     env_fallback |-> env_fallback, local |-> local]

\* configurations of the job in the runs on one proposal
RunConfigs ==
    {Cfg(None, None, None, None, FALSE),
     Cfg(None, None, Some(<<"7", "9">>), None, TRUE)}

\* configurations the threshold resolution is checked on
AllConfigs ==
    {Cfg(cli, d, p, f, FALSE) :
        cli \in {None, Some(75), Some(0)},
        d \in {None, Some(<< >>), Some(<<"6", "0">>), Some(<<"a", "b", "c">>)},
        p \in {None, Some(<<"5", "0">>), Some(<<"x">>)},
        f \in {None, Some(<<"7", "0">>), Some(<< >>)}}

HttpOutcomes == {"200", "403", "raise"}
CallOutcomes == {"ok", "raise"}

----------------------------------------------------------------------------
(* A run: main and run_decision_flow *)

Op(op, res) == [op |-> op, res |-> res]

NoPrev == [decision |-> "none", score |-> ABSENT, threshold |-> 0,
           exit_code |-> -1, clean |-> FALSE]

Failed(res) == res \notin {"ok", "200"}

\* every external call of the run answered with success
Clean(log) == \A i \in 1..Len(log) : ~Failed(log[i].res)

\* the failures among the calls a step made stay within the budget
Charge(log) ==
    LET n == Cardinality({i \in 1..Len(log) : Failed(log[i].res)})
    IN  /\ faults + n <= MaxFaults
        /\ faults' = faults + n

\* a best-effort warning comment: posted when the call succeeds, dropped
\* silently when it raises
WithWarning(store, heading, w) ==
    IF w = "ok" THEN Append(store, WarningBody(heading)) ELSE store

\* the run ends on an exception nothing catches, or on return 1
Fail ==
    /\ pc' = "done"
    /\ exit_code' = 1

should_merge == compute_decision(title_type, compat_score, threshold)

reason_parts == build_reasons(title_type, compat_score, threshold)

\* main up to connect_github: credential, proposal context, the three
\* computations, the connection
StartRun ==
    /\ pc \in {"idle", "done"}
    /\ nruns < MaxRuns
    /\ nruns' = nruns + 1
    /\ prev' = IF pc = "idle" THEN NoPrev
               ELSE [decision |-> decision, score |-> compat_score,
                     threshold |-> threshold, exit_code |-> exit_code,
                     clean |-> Clean(ops)]
    /\ was_armed' = armed
    /\ has_skip' = FALSE
    /\ decision' = "none"
    /\ merge_allowed' = "none"
    /\ outcome_file' = "none"
    /\ \E pre \in {"ok", "no_token", "bad_ref"}, body \in Bodies,
          remote \in Remotes, conn \in CallOutcomes :
          LET score == get_compat_score(body, remote)
          IN  IF pre # "ok"
              THEN /\ compat_score' = ABSENT
                   /\ threshold' = 0
                   /\ ops' = << >>
                   /\ Fail
                   /\ UNCHANGED faults
              ELSE /\ compat_score' = score
                   /\ threshold' = load_threshold(prepare_env(config))
                   /\ IF score.kind = "raise"
                      THEN /\ ops' = << Op("fetch", "raise") >>
                           /\ Fail
                      ELSE IF conn = "raise"
                      THEN /\ ops' = << Op("connect", "raise") >>
                           /\ Fail
                      ELSE /\ ops' = << >>
                           /\ pc' = "disable"
                           /\ exit_code' = -1
                   /\ Charge(ops')
    /\ UNCHANGED <<hostVars, prVars, pureVars>>

\* run_decision_flow without the call of disable_automerge
DisableAutomerge_omitted ==
    /\ pc = "disable"
    /\ pc' = "skip"
    /\ UNCHANGED <<hostVars, prVars, pureVars, nruns, compat_score, threshold,
                   has_skip, decision, merge_allowed, outcome_file, exit_code,
                   ops, was_armed, faults, prev>>

\* run_decision_flow disarming only on the way to arming
DisableAutomerge_only_when_merging ==
    /\ pc = "disable"
    /\ \E r \in HttpOutcomes, w \in CallOutcomes :
          LET log == IF ~should_merge THEN << >>
                     ELSE IF r = "raise"
                     THEN << Op("disarm", r), Op("create:warning", w) >>
                     ELSE << Op("disarm", r) >>
          IN  /\ armed' = IF should_merge /\ r = "200" THEN FALSE ELSE armed
              /\ comments' = IF should_merge /\ r = "raise"
                             THEN WithWarning(comments,
                                     "Failed to disable auto-merge", w)
                             ELSE comments
              /\ ops' = ops \o log
              /\ Charge(log)
    /\ pc' = "skip"
    /\ UNCHANGED <<prVars, pureVars, nruns, compat_score, threshold, has_skip,
                   decision, merge_allowed, outcome_file, exit_code,
                   was_armed, prev>>

\* disable_automerge and the handler around it
DisableAutomerge ==
    /\ pc = "disable"
    /\ \E r \in HttpOutcomes, w \in CallOutcomes :
          LET log == IF r = "raise"
                     THEN << Op("disarm", r), Op("create:warning", w) >>
                     ELSE << Op("disarm", r) >>
          IN  /\ armed' = IF r = "200" THEN FALSE ELSE armed
              /\ comments' = IF r = "raise"
                             THEN WithWarning(comments,
                                     "Failed to disable auto-merge", w)
                             ELSE comments
              /\ ops' = ops \o log
              /\ Charge(log)
    /\ pc' = "skip"
    /\ UNCHANGED <<prVars, pureVars, nruns, compat_score, threshold, has_skip,
                   decision, merge_allowed, outcome_file, exit_code,
                   was_armed, prev>>

\* handle_skip_label and the branch of run_decision_flow on its result and
\* on should_merge and is_dependabot
HandleSkipLabel ==
    /\ pc = "skip"
    /\ \E labels \in {"raise", "skip", "none"}, c \in CallOutcomes :
          LET log == CASE labels = "raise" -> << Op("get_labels", "raise") >>
                       [] labels = "skip" -> << Op("get_labels", "ok"),
                                                Op("create:skip", c) >>
                       [] labels = "none" -> << Op("get_labels", "ok") >>
          IN  /\ ops' = ops \o log
              /\ Charge(log)
              /\ CASE labels = "raise" ->
                      /\ Fail
                      /\ UNCHANGED <<comments, has_skip, decision,
                                     merge_allowed, outcome_file>>
                   [] labels = "skip" ->
                      /\ has_skip' = TRUE
                      /\ decision' = "Skipped"
                      /\ IF c = "raise"
                         THEN /\ Fail
                              /\ UNCHANGED <<comments, merge_allowed,
                                             outcome_file>>
                         ELSE /\ comments' = Append(comments,
                                                SkipBody(reason_parts))
                              /\ merge_allowed' = "false"
                              /\ outcome_file' = "skipped"
                              /\ pc' = "done"
                              /\ exit_code' = 0
                   [] labels = "none" ->
                      /\ IF should_merge /\ is_dependabot(author_login)
                         THEN decision' = "Allow" /\ pc' = "enable"
                         ELSE decision' = "ManualReviewRequired" /\ pc' = "manual"
                      /\ UNCHANGED <<comments, has_skip, merge_allowed,
                                     outcome_file, exit_code>>
    /\ UNCHANGED <<armed, prVars, pureVars, nruns, compat_score, threshold,
                   was_armed, prev>>

\* enable_automerge and the try block around it
EnableAutomerge ==
    /\ pc = "enable"
    /\ \E r \in HttpOutcomes, w \in CallOutcomes :
          LET log == IF r = "raise"
                     THEN << Op("arm", r), Op("create:warning", w) >>
                     ELSE << Op("arm", r) >>
          IN  /\ armed' = IF r = "200" THEN TRUE ELSE armed
              /\ ops' = ops \o log
              /\ Charge(log)
              /\ IF r = "raise"
                 THEN /\ merge_allowed' = "false"
                      /\ comments' = WithWarning(comments,
                                        "Failed to enable auto-merge", w)
                      /\ Fail
                      /\ UNCHANGED outcome_file
                 ELSE /\ merge_allowed' = "true"
                      /\ outcome_file' = "enabled"
                      /\ pc' = "success"
                      /\ UNCHANGED <<comments, exit_code>>
    /\ UNCHANGED <<prVars, pureVars, nruns, compat_score, threshold, has_skip,
                   decision, was_armed, prev>>

\* post_success_comment and the handler around it, then the test of
\* args.enable_automerge
PostSuccessComment ==
    /\ pc = "success"
    /\ \E g \in CallOutcomes, c \in CallOutcomes, w \in CallOutcomes :
          LET body == SuccessBody(title_type, compat_score, threshold,
                                  reason_parts)
              u == upsert(comments, SUCCESS_MARKER, body, c)
              log == IF g = "raise"
                     THEN << Op("get_comments", g), Op("create:warning", w) >>
                     ELSE IF u.raised
                     THEN << Op("get_comments", g), Op(u.op \o ":success", c),
                             Op("create:warning", w) >>
                     ELSE IF u.op # ""
                     THEN << Op("get_comments", g), Op(u.op \o ":success", c) >>
                     ELSE << Op("get_comments", g) >>
          IN  /\ comments' = IF g = "raise" \/ u.raised
                             THEN WithWarning(comments,
                                     "Failed to post details comment", w)
                             ELSE u.store
              /\ ops' = ops \o log
              /\ Charge(log)
    /\ IF config.local
       THEN pc' = "local" /\ exit_code' = exit_code
       ELSE pc' = "done" /\ exit_code' = 0
    /\ UNCHANGED <<armed, prVars, pureVars, nruns, compat_score, threshold,
                   has_skip, decision, merge_allowed, outcome_file,
                   was_armed, prev>>

\* local_automerge_note and the handler around it
LocalAutomergeNote ==
    /\ pc = "local"
    /\ \E c \in CallOutcomes, w \in CallOutcomes :
          LET log == IF c = "raise"
                     THEN << Op("create:note", c), Op("create:warning", w) >>
                     ELSE << Op("create:note", c) >>
          IN  /\ comments' = IF c = "raise"
                             THEN WithWarning(comments,
                                     "Local run simulation failed", w)
                             ELSE Append(comments, LocalNoteBody)
              /\ ops' = ops \o log
              /\ Charge(log)
    /\ pc' = "done"
    /\ exit_code' = 0
    /\ UNCHANGED <<armed, prVars, pureVars, nruns, compat_score, threshold,
                   has_skip, decision, merge_allowed, outcome_file,
                   was_armed, prev>>

\* post_manual_review; nothing catches what it raises
PostManualReview ==
    /\ pc = "manual"
    /\ \E g \in CallOutcomes, c \in CallOutcomes :
          LET u == upsert(comments, MANUAL_MARKER, ManualBody(reason_parts), c)
              log == IF g = "raise"
                     THEN << Op("get_comments", g) >>
                     ELSE IF u.op # ""
                     THEN << Op("get_comments", g), Op(u.op \o ":manual", c) >>
                     ELSE << Op("get_comments", g) >>
          IN  /\ ops' = ops \o log
              /\ Charge(log)
              /\ IF g = "raise" \/ u.raised
                 THEN /\ Fail
                      /\ UNCHANGED <<comments, merge_allowed, outcome_file>>
                 ELSE /\ comments' = u.store
                      /\ merge_allowed' = "false"
                      /\ outcome_file' = "manual"
                      /\ pc' = "done"
                      /\ exit_code' = 0
    /\ UNCHANGED <<armed, prVars, pureVars, nruns, compat_score, threshold,
                   has_skip, decision, was_armed, prev>>

NoArgs == Cfg(None, None, None, None, FALSE)

Init ==
    /\ armed = FALSE
    /\ comments = << >>
    /\ title_type \in {get_upgrade_type(t) : t \in Titles}
    /\ author_login \in Logins
    /\ config \in RunConfigs
    /\ pc = "idle"
    /\ nruns = 0
    /\ compat_score = ABSENT
    /\ threshold = 0
    /\ has_skip = FALSE
    /\ decision = "none"
    /\ merge_allowed = "none"
    /\ outcome_file = "none"
    /\ exit_code = -1
    /\ ops = << >>
    /\ was_armed = FALSE
    /\ faults = 0
    /\ prev = NoPrev
    /\ t_args = NoArgs
    /\ t_result = None
    /\ s_body = << >>
    /\ s_remote = SvgPlain
    /\ s_result = None
    /\ c_title = << >>
    /\ c_result = None

Next ==
    \/ StartRun
    \/ DisableAutomerge
    \/ HandleSkipLabel
    \/ EnableAutomerge
    \/ PostSuccessComment
    \/ LocalAutomergeNote
    \/ PostManualReview

Spec == Init /\ [][Next]_vars

----------------------------------------------------------------------------
(* The pure functions on their own *)

\* everything of the proposal and its runs at rest
Parked ==
    /\ armed = FALSE
    /\ comments = << >>
    /\ title_type = "not-semver"
    /\ author_login = "octocat"
    /\ config = NoArgs
    /\ pc = "idle"
    /\ nruns = 0
    /\ compat_score = ABSENT
    /\ threshold = 0
    /\ has_skip = FALSE
    /\ decision = "none"
    /\ merge_allowed = "none"
    /\ outcome_file = "none"
    /\ exit_code = -1
    /\ ops = << >>
    /\ was_armed = FALSE
    /\ faults = 0
    /\ prev = NoPrev

InitThreshold ==
    /\ Parked
    /\ t_args \in AllConfigs
    /\ t_result = None
    /\ s_body = << >>
    /\ s_remote = SvgPlain
    /\ s_result = None
    /\ c_title = << >>
    /\ c_result = None

\* main: prepare_env, then load_threshold on the dispatch inputs
ResolveThreshold ==
    /\ t_result = None
    /\ t_result' = Some(load_threshold(prepare_env(t_args)))
    /\ UNCHANGED <<hostVars, prVars, runVars, t_args, s_body, s_remote,
                   s_result, c_title, c_result>>

NextThreshold == ResolveThreshold

SpecThreshold == InitThreshold /\ [][NextThreshold]_vars

InitScore ==
    /\ Parked
    /\ t_args = NoArgs
    /\ t_result = None
    /\ s_body \in Bodies
    /\ s_remote \in Remotes
    /\ s_result = None
    /\ c_title = << >>
    /\ c_result = None

\* run_decision_flow: compat_score = get_compat_score(body)
ExtractScore ==
    /\ s_result = None
    /\ s_result' = Some(get_compat_score(s_body, s_remote))
    /\ UNCHANGED <<hostVars, prVars, runVars, t_args, t_result, s_body,
                   s_remote, c_title, c_result>>

NextScore == ExtractScore

SpecScore == InitScore /\ [][NextScore]_vars

InitClassify ==
    /\ Parked
    /\ t_args = NoArgs
    /\ t_result = None
    /\ s_body = << >>
    /\ s_remote = SvgPlain
    /\ s_result = None
    /\ c_title \in Titles
    /\ c_result = None

\* run_decision_flow: upgrade_type = get_upgrade_type(title)
ClassifyTitle ==
    /\ c_result = None
    /\ c_result' = Some(get_upgrade_type(c_title))
    /\ UNCHANGED <<hostVars, prVars, runVars, t_args, t_result, s_body,
                   s_remote, s_result, c_title>>

NextClassify == ClassifyTitle

SpecClassify == InitClassify /\ [][NextClassify]_vars

----------------------------------------------------------------------------
(* Properties *)

Attempted(op) == \E i \in 1..Len(ops) : ops[i].op = op

FailedOp(op) == \E i \in 1..Len(ops) : ops[i].op = op /\ Failed(ops[i].res)

\* the run made external calls and all of them succeeded
CleanRun == pc = "done" /\ ops # << >> /\ Clean(ops)

AutomatedAuthor == author_login \in {"dependabot[bot]", "Dependabot[bot]"}

\* the decision the ordered rules give
RuleDecision ==
    IF has_skip THEN "Skipped"
    ELSE IF title_type = "Patch" /\ AutomatedAuthor THEN "Allow"
    ELSE IF /\ title_type = "Minor"
            /\ compat_score.kind = "int"
            /\ compat_score.val >= threshold
            /\ AutomatedAuthor
         THEN "Allow"
    ELSE "ManualReviewRequired"

\* C1: a run whose external calls all succeed ends with the decision the
\* ordered rules give for its classification, confidence, threshold, skip
\* label and author, and writes MERGE_ALLOWED=true for Allow and
\* MERGE_ALLOWED=false for Skipped and ManualReviewRequired.
C1_DecisionByRules ==
    CleanRun =>
        /\ decision = RuleDecision
        /\ merge_allowed = (IF RuleDecision = "Allow" THEN "true" ELSE "false")

\* a Minor bump whose score equals the threshold was allowed
C1_Witness ==
    /\ CleanRun
    /\ title_type = "Minor"
    /\ compat_score.kind = "int"
    /\ compat_score.val = threshold
    /\ decision = "Allow"
    /\ merge_allowed = "true"

\* C2: in a run that reaches the decision the disarm call is the first
\* mutation attempted, no arm call comes without a disarm call before it,
\* the arm call is made once the decision is Allow, and never when the
\* decision is ManualReviewRequired or Skipped.
C2_DisarmBeforeArm ==
    /\ \A i \in 1..Len(ops) :
          ops[i].op = "arm" => \E j \in 1..(i - 1) : ops[j].op = "disarm"
    /\ decision # "none" => ops # << >> /\ ops[1].op = "disarm"
    /\ (decision = "Allow" /\ pc # "enable") => Attempted("arm")
    /\ decision \in {"ManualReviewRequired", "Skipped"} => ~Attempted("arm")
    /\ Attempted("arm") => decision = "Allow"

\* an Allow run that has attempted disarm and then arm
C2_Witness ==
    /\ pc = "done"
    /\ decision = "Allow"
    /\ \E i, j \in 1..Len(ops) :
          i < j /\ ops[i].op = "disarm" /\ ops[j].op = "arm"

NotAllowed == decision \in {"ManualReviewRequired", "Skipped"}

\* C3 as stated: whatever the external calls answer, a run that ends with
\* ManualReviewRequired or Skipped leaves auto-merge not armed.
C3_NeverSurvives == (pc = "done" /\ NotAllowed) => ~armed

\* C3 amended: a run that ends with ManualReviewRequired or Skipped leaves
\* auto-merge not armed, even if an earlier run armed it, unless the disarm
\* call of that run failed (raised or was answered with a non-success
\* status).
C3_SurvivesOnlyFailedDisarm ==
    (pc = "done" /\ NotAllowed /\ ~FailedOp("disarm")) => ~armed

\* a later run found auto-merge armed and ended not allowed and disarmed
C3_Witness ==
    /\ pc = "done"
    /\ nruns >= 2
    /\ was_armed
    /\ NotAllowed
    /\ ~armed

\* C4: when the decision is Allow and the arm call fails, by a raised
\* error or by a non-success answer, the run ends with a non-zero exit code
\* and without MERGE_ALLOWED=true; no run ends with exit code 0 and
\* MERGE_ALLOWED=true unless its arm call succeeded.
C4_ArmFailureFailsRun ==
    /\ (pc = "done" /\ decision = "Allow" /\ FailedOp("arm")) =>
          (exit_code # 0 /\ merge_allowed # "true")
    /\ (pc = "done" /\ exit_code = 0 /\ merge_allowed = "true") =>
          \E i \in 1..Len(ops) : ops[i] = Op("arm", "200")

Marked(marker) == {i \in 1..Len(comments) : comments[i].marker = marker}

OutcomeMarker == IF decision = "Allow" THEN SUCCESS_MARKER ELSE MANUAL_MARKER

OutcomeBody ==
    IF decision = "Allow"
    THEN SuccessBody(title_type, compat_score, threshold, reason_parts)
    ELSE ManualBody(reason_parts)

Wrote(kind) == Attempted("create:" \o kind) \/ Attempted("edit:" \o kind)

\* the run repeats the run before it: same inputs, same outcome, both
\* with every external call succeeding
Rerun ==
    /\ CleanRun
    /\ nruns >= 2
    /\ decision \in {"Allow", "ManualReviewRequired"}
    /\ prev.clean
    /\ prev.exit_code = 0
    /\ prev.decision = decision
    /\ prev.score = compat_score
    /\ prev.threshold = threshold

\* C5: after a run that repeats the run before it with unchanged inputs
\* leading to ManualReviewRequired, or to Allow, there is exactly one
\* comment with that outcome's marker, its body is the one rendered from
\* the inputs, and the second run neither created nor edited a comment for
\* that marker.
C5_RerunIdempotent ==
    Rerun =>
        /\ Cardinality(Marked(OutcomeMarker)) = 1
        /\ \A i \in Marked(OutcomeMarker) : comments[i] = OutcomeBody
        /\ ~Wrote("success")
        /\ ~Wrote("manual")

\* a second run repeated an Allow run and found its comment
C5_Witness ==
    /\ Rerun
    /\ decision = "Allow"
    /\ Cardinality(Marked(SUCCESS_MARKER)) = 1

SkipComments ==
    {i \in 1..Len(comments) : comments[i].heading = "Skipping auto-merge"}

\* C6: after any number of runs on a proposal that carries the skip label
\* the comment store holds at most one skip comment.
C6_SkipDeduplicated == Cardinality(SkipComments) <= 1

CommentWrites ==
    {"create:skip", "create:manual", "edit:manual",
     "create:success", "edit:success"}

\* the run failed in posting or editing its outcome comment and nowhere else
OnlyCommentFailed ==
    /\ pc = "done"
    /\ ~Clean(ops)
    /\ \A i \in 1..Len(ops) : Failed(ops[i].res) => ops[i].op \in CommentWrites

\* C7: a run in which only the posting or editing of the skip,
\* manual-review or success comment fails still writes MERGE_ALLOWED and
\* the status artifact and ends with exit code 0.
C7_OutputDespiteCommentFailure ==
    OnlyCommentFailed =>
        /\ merge_allowed # "none"
        /\ outcome_file # "none"
        /\ exit_code = 0

\* the highest-precedence source that is present, non-empty and an integer
PrecedenceThreshold(cfg) ==
    IF cfg.cli # None THEN Get(cfg.cli)
    ELSE IF Truthy(cfg.dispatch) /\ IntParses(Get(cfg.dispatch))
         THEN IntOf(Get(cfg.dispatch))
    ELSE IF Truthy(cfg.env_primary) /\ IntParses(Get(cfg.env_primary))
         THEN IntOf(Get(cfg.env_primary))
    ELSE IF Truthy(cfg.env_fallback) /\ IntParses(Get(cfg.env_fallback))
         THEN IntOf(Get(cfg.env_fallback))
    ELSE 80

\* C8: the effective threshold is the value of the highest-precedence
\* source that is present, non-empty and parses as an integer, in the order
\* CLI override, workflow-dispatch input, primary environment variable,
\* fallback environment variable, default 80.
C8_ThresholdPrecedence ==
    t_result # None => Get(t_result) = PrecedenceThreshold(t_args)

\* C9: the confidence extraction gives its caller an integer or the typed
\* absent value; it never raises and never returns a string.
C9_IntOrAbsent ==
    s_result # None => Get(s_result).kind \in {"int", "none"}

ScoreTexts == {i \in 1..Len(s_body) : s_body[i].t = "score_text"}

\* C10: a description holding a sentence "Compatibility score: N%" yields
\* N, with or without a badge reference.
C10_DirectMatchFirst ==
    (s_result # None /\ ScoreTexts # {}) =>
        \E i \in ScoreTexts :
            /\ \A j \in ScoreTexts : i <= j
            /\ Get(s_result) = IntResult(s_body[i].n)

\* a version as the claim reads it: three non-negative integers, then
\* nothing or a suffix starting with "-" or "+"; the integers, or None
SemverOf(w) ==
    LET p == VersionPrefix(w)
    IN  IF p.len = 0 THEN None
        ELSE IF p.len < Len(w) /\ w[p.len + 1] \notin {"-", "+"} THEN None
        ELSE Some(<< DigitsVal(p.parts[1]), DigitsVal(p.parts[2]),
                     DigitsVal(p.parts[3]) >>)

\* "bump <dependency> from <A> to <B>" with "bump" at word b
BumpShapeAt(title, b) ==
    /\ b + 5 <= Len(title)
    /\ LowerWord(title[b]) = KW_BUMP
    /\ LowerWord(title[b + 2]) = KW_FROM
    /\ SemverOf(title[b + 3]) # None
    /\ LowerWord(title[b + 4]) = KW_TO
    /\ SemverOf(title[b + 5]) # None

\* the classification by the first differing component
FirstDifference(from_v, to_v) ==
    IF to_v[1] # from_v[1] THEN "Major"
    ELSE IF to_v[2] # from_v[2] THEN "Minor"
    ELSE IF to_v[3] # from_v[3] THEN "Patch"
    ELSE "unknown"

\* C11: a title "bump <dependency> from <A> to <B>", A and B each three
\* non-negative integers with an optional suffix starting with "-" or "+",
\* is classified by the first differing component in the order major,
\* minor, patch, the suffix of either side ignored (Unknown when all three
\* are equal); every other title is classified NotSemver.
C11_FirstDifferenceIgnoringSuffix ==
    c_result # None =>
        IF \E b \in 1..Len(c_title) : BumpShapeAt(c_title, b)
        THEN \E b \in 1..Len(c_title) :
                /\ BumpShapeAt(c_title, b)
                /\ Get(c_result) =
                      FirstDifference(Get(SemverOf(c_title[b + 3])),
                                      Get(SemverOf(c_title[b + 5])))
        ELSE Get(c_result) = "not-semver"

====
